---- MODULE Spec2Model ----
(***************************************************************************)
(* Model of the snuba write path (EventsProcessorBase.process_message,     *)
(* process_insert, extract_stacktraces) and read path                      *)
(* (SingleTagProcessor.process_query).                                     *)
(*                                                                         *)
(* Conventions.  A Python value that may be None is a sequence of length   *)
(* at most one: <<>> is None and <<v>> is v.  A dict is a function from    *)
(* string keys to such optional values.  A datetime, and a number of       *)
(* seconds since the epoch, is modelled in whole minutes since 1970-01-01  *)
(* (the model checker's integers are 32 bits wide).  An exception leaving  *)
(* a function is a non-empty string in the field exc.                      *)
(***************************************************************************)
EXTENDS Integers, Sequences, FiniteSets, TLC

VARIABLES
    message,      \* pipeline: the (version, type, event) tuple handed to process_message
    metadata,     \* pipeline: the KafkaMessageMetadata handed to process_message
    processor,    \* pipeline: the concrete subclass (its hooks)
    result,       \* pipeline: what process_message returned or raised
    calls,        \* pipeline: the extraction steps and hooks invoked, in order
    pc,           \* pipeline: "ready" before the call, "done" after it
    stacks,       \* stack traces: the list handed to extract_stacktraces
    output,       \* stack traces: the output mapping extract_stacktraces fills
    spc,          \* stack traces: "ready" / "done"
    exp,          \* rewriter: the expression node handed to process_column
    config,       \* rewriter: the SingleTagProcessor's constructor arguments
    row,          \* rewriter: a stored row the rewritten expression is evaluated on
    rewritten,    \* rewriter: what process_column returned or raised
    qpc           \* rewriter: "ready" / "done"

vars == <<message, metadata, processor, result, calls, pc,
          stacks, output, spc, exp, config, row, rewritten, qpc>>

pipelineVars == <<message, metadata, processor, result, calls, pc>>
stackVars == <<stacks, output, spc>>
rewriterVars == <<exp, config, row, rewritten, qpc>>

-----------------------------------------------------------------------------
(* Optional values and dicts *)

None == <<>>

Some(v) == <<v>>

\* dict.get(key, None)
Get(d, k) == IF k \in DOMAIN d THEN d[k] ELSE None

\* output[key] = value
Put(d, k, v) == (k :> v) @@ d

\* x or default, for an optional dict or list
OrElse(x, default) == IF x = None THEN default ELSE x[1]

SeqsUpTo(S, n) == UNION {[1..k -> S] : k \in 0..n}

EmptyDict == [k \in {} |-> None]

\* (2^32 - 1) div 2: n > MAX_UINT32 exactly when n div 2 > HALF_MAX_UINT32
HALF_MAX_UINT32 == 2147483647

\* _collapse_uint32: None when the number is absent or outside [0, 2^32 - 1]
CollapseUint32(n) ==
    IF n = None THEN None
    ELSE IF n[1] < 0 \/ n[1] \div 2 > HALF_MAX_UINT32 THEN None ELSE n

\* (2^32 - 1) div 60: the last whole minute whose seconds fit in a uint32
MAX_UINT32_MINUTES == 71582788

\* _collapse_uint32 of a number of seconds given in whole minutes
CollapseSeconds(n) ==
    IF n = None THEN None
    ELSE IF n[1] < 0 \/ n[1] > MAX_UINT32_MINUTES THEN None ELSE n

\* _unicodify on None or a string: the value itself
Unicodify(s) == s

\* _boolify on None or a bool: the value itself
Boolify(b) == b

-----------------------------------------------------------------------------
(* Stack traces: EventsProcessorBase.extract_stacktraces *)

MaxStacks == 2

MaxFrames == 2

\* settings.PROJECT_STACKTRACE_BLACKLIST
PROJECT_STACKTRACE_BLACKLIST == {2}

ProjectIds == {2, 7}

FrameA == [function |-> Some("main"), filename |-> Some("app.py"),
           in_app |-> Some(TRUE), lineno |-> Some(10)]

\* an entry of a frames list: null, or a frame
FrameEntries == {None, Some(FrameA)}

FrameLists == SeqsUpTo(FrameEntries, MaxFrames)

StackBare == [type |-> Some("ValueError"), value |-> Some("boom")]

\* an entry of a stacks list: null, a stack without a stacktrace, a stack whose
\* stacktrace is null, or a stack with a list of frames
StackEntries ==
    {None, Some(StackBare), Some(Put(StackBare, "stacktrace", None))}
    \cup {Some(Put(Put(StackBare, "mechanism",
                       Some([type |-> Some("generic"), handled |-> Some(FALSE)])),
                   "stacktrace", Some([frames |-> Some(fl)]))) : fl \in FrameLists}

StackLists == SeqsUpTo(StackEntries, MaxStacks)

StackArrays == {"exception_stacks.type", "exception_stacks.value",
                "exception_stacks.mechanism_type",
                "exception_stacks.mechanism_handled"}

FrameArrays == {"exception_frames.abs_path", "exception_frames.filename",
                "exception_frames.package", "exception_frames.module",
                "exception_frames.function", "exception_frames.in_app",
                "exception_frames.colno", "exception_frames.lineno",
                "exception_frames.stack_level"}

\* the thirteen lists and the counter as they are before the loop
EmptyArrays == [c \in StackArrays \cup FrameArrays |-> <<>>]

\* a list with one more element: list.append
AppendTo(acc, col, v) == [acc EXCEPT ![col] = Append(@, v)]

\* the body of the inner loop for one entry of frames
FrameStep(acc, frame, stack_level) ==
    IF frame = None THEN acc
    ELSE LET f == frame[1]
             a1 == AppendTo(acc, "exception_frames.abs_path", Unicodify(Get(f, "abs_path")))
             a2 == AppendTo(a1, "exception_frames.filename", Unicodify(Get(f, "filename")))
             a3 == AppendTo(a2, "exception_frames.package", Unicodify(Get(f, "package")))
             a4 == AppendTo(a3, "exception_frames.module", Unicodify(Get(f, "module")))
             a5 == AppendTo(a4, "exception_frames.function", Unicodify(Get(f, "function")))
             a6 == AppendTo(a5, "exception_frames.in_app", Get(f, "in_app"))
             a7 == AppendTo(a6, "exception_frames.colno", CollapseUint32(Get(f, "colno")))
             a8 == AppendTo(a7, "exception_frames.lineno", CollapseUint32(Get(f, "lineno")))
         IN AppendTo(a8, "exception_frames.stack_level", stack_level)

\* for frame in frames, from entry i on
RECURSIVE FrameLoop(_, _, _, _)
FrameLoop(acc, frames, i, stack_level) ==
    IF i > Len(frames) THEN acc
    ELSE FrameLoop(FrameStep(acc, frames[i], stack_level), frames, i + 1, stack_level)

\* the part of the outer loop's body that appends the per-stack values
StackStep(acc, stack) ==
    LET a1 == AppendTo(acc, "exception_stacks.type", Unicodify(Get(stack, "type")))
        a2 == AppendTo(a1, "exception_stacks.value", Unicodify(Get(stack, "value")))
        mechanism == OrElse(Get(stack, "mechanism"), EmptyDict)
        a3 == AppendTo(a2, "exception_stacks.mechanism_type",
                       Unicodify(Get(mechanism, "type")))
    IN AppendTo(a3, "exception_stacks.mechanism_handled",
                Boolify(Get(mechanism, "handled")))

\* (stack.get("stacktrace", None) or {}).get("frames", None) or []
FramesOf(stack) ==
    OrElse(Get(OrElse(Get(stack, "stacktrace"), EmptyDict), "frames"), <<>>)

\* the outer loop with the counter advanced for a null stack too
RECURSIVE StackLoopCountNulls(_, _, _, _)
StackLoopCountNulls(acc, stks, i, stack_level) ==
    IF i > Len(stks) THEN acc
    ELSE IF stks[i] = None THEN StackLoopCountNulls(acc, stks, i + 1, stack_level + 1)
    ELSE StackLoopCountNulls(
             FrameLoop(StackStep(acc, stks[i][1]), FramesOf(stks[i][1]), 1, stack_level),
             stks, i + 1, stack_level + 1)

\* for stack in stacks, from entry i on, with the counter at stack_level
RECURSIVE StackLoop(_, _, _, _)
StackLoop(acc, stks, i, stack_level) ==
    IF i > Len(stks) THEN acc
    ELSE IF stks[i] = None THEN StackLoop(acc, stks, i + 1, stack_level)
    ELSE StackLoop(FrameLoop(StackStep(acc, stks[i][1]), FramesOf(stks[i][1]), 1,
                             stack_level),
                   stks, i + 1, stack_level + 1)

\* extract_stacktraces with the counter started at 1 instead of 0
ExtractStacktracesFromOne(out, stks) ==
    LET acc == IF out["project_id"] \notin PROJECT_STACKTRACE_BLACKLIST
               THEN StackLoop(EmptyArrays, stks, 1, 1)
               ELSE EmptyArrays
    IN acc @@ out

\* extract_stacktraces(output, stacks): the output mapping with the thirteen
\* arrays assigned
ExtractStacktraces(out, stks) ==
    LET acc == IF out["project_id"] \notin PROJECT_STACKTRACE_BLACKLIST
               THEN StackLoop(EmptyArrays, stks, 1, 0)
               ELSE EmptyArrays
    IN acc @@ out

StackInit ==
    /\ stacks \in StackLists
    /\ output \in {[project_id |-> p] : p \in ProjectIds}
    /\ spc = "ready"

\* one call of extract_stacktraces
CallExtractStacktraces ==
    /\ spc = "ready"
    /\ output' = ExtractStacktraces(output, stacks)
    /\ spc' = "done"
    /\ UNCHANGED stacks

-----------------------------------------------------------------------------
(* Write path: EventsProcessorBase.process_message and process_insert *)

MaxTags == 2

SupportedVersion == 2

\* class ReplacementType
ReplacementType ==
    {"start_delete_groups", "start_merge", "start_unmerge",
     "start_unmerge_hierarchical", "start_delete_tag",
     "end_delete_groups", "end_merge", "end_unmerge",
     "end_unmerge_hierarchical", "end_delete_tag",
     "tombstone_events", "replace_group", "exclude_groups"}

REPLACEMENT_EVENT_TYPES ==
    {"start_delete_groups", "start_merge", "start_unmerge", "start_delete_tag",
     "end_delete_groups", "end_merge", "end_unmerge", "end_delete_tag",
     "tombstone_events", "exclude_groups", "replace_group"}

\* datetime.utcnow(): 2021-04-24T21:33:00
UtcNow == 26988333

\* datetime.strptime(s, settings.PAYLOAD_DATETIME_FORMAT) with the format
\* "%Y-%m-%dT%H:%M:%S.%fZ": the parsed datetime, or ValueError for a string
\* that does not match the format
Strptime(s) ==
    CASE s = "2021-04-24T00:48:00.000000Z" -> [ok |-> TRUE, value |-> 26987088]
      [] s = "2020-01-01T00:00:00.000000Z" -> [ok |-> TRUE, value |-> 26297280]
      [] s = "1969-12-31T23:59:00.000000Z" -> [ok |-> TRUE, value |-> -1]
      [] s = "2200-01-01T00:00:00.000000Z" -> [ok |-> TRUE, value |-> 120968640]
      [] OTHER -> [ok |-> FALSE, value |-> 0]

\* _ensure_valid_date: None when the datetime is outside the uint32 range of
\* seconds since the epoch
EnsureValidDate(dt) ==
    IF CollapseSeconds(Some(dt)) = None THEN None ELSE Some(dt)

\* the state of one process_insert call: the row so far, the steps and hooks
\* invoked so far, the exception raised ("" for none), whether it returned None
StartInsert == [out |-> EmptyDict, calls |-> <<>>, exc |-> "", ret |-> FALSE]

Active(s) == s.exc = "" /\ ~s.ret

Called(s, name) == [s EXCEPT !.calls = Append(@, name)]

Raise(s, e) == [s EXCEPT !.exc = e]

\* a dataset hook may write any column of the mutable output it is handed:
\* the subclass proc overwrites column proc.clobber.column in hook
\* proc.clobber.hook
HookJunk == 99

HookWrite(s, proc, hook) ==
    IF proc.clobber # None /\ proc.clobber[1].hook = hook
    THEN [s EXCEPT !.out = Put(@, proc.clobber[1].column, HookJunk)]
    ELSE s

\* if not self._should_process(event): return None
ShouldProcess(s, proc, event) ==
    LET s1 == Called(s, "_should_process")
    IN IF proc.should_process THEN s1 ELSE [s1 EXCEPT !.ret = TRUE]

\* processed = {"deleted": 0}
InitProcessed(s) ==
    IF ~Active(s) THEN s ELSE [s EXCEPT !.out = Put(@, "deleted", 0)]

\* extract_project_id(processed, event)
ExtractProjectId(s, event) ==
    IF ~Active(s) THEN s
    ELSE [Called(s, "extract_project_id")
            EXCEPT !.out = Put(@, "project_id", event["project_id"][1])]

\* self._extract_event_id(processed, event)
ExtractEventId(s, proc, event) ==
    IF ~Active(s) THEN s
    ELSE HookWrite([Called(s, "_extract_event_id")
                      EXCEPT !.out = Put(@, "event_id", event["event_id"])],
                   proc, "_extract_event_id")

\* enforce_retention(event, timestamp): the retention days, or EventTooOld
EnforceRetention(event, timestamp) ==
    LET days == event["retention_days"][1]
        ts == OrElse(EnsureValidDate(timestamp), UtcNow)
    IN [too_old |-> ts < UtcNow - days * 1440, days |-> days]

\* processed["retention_days"] = enforce_retention(event, strptime(...))
RetentionStep(s, event) ==
    IF ~Active(s) THEN s
    ELSE LET parsed == Strptime(event["datetime"][1])
         IN IF ~parsed.ok THEN Raise(s, "ValueError")
            ELSE LET r == EnforceRetention(event, parsed.value)
                     s1 == Called(s, "enforce_retention")
                 IN IF r.too_old THEN Raise(s1, "EventTooOld")
                    ELSE [s1 EXCEPT !.out = Put(@, "retention_days", r.days)]

\* extract_required(output, event)
ExtractRequired(s, event) ==
    IF ~Active(s) THEN s
    ELSE LET s1 == [Called(s, "extract_required")
                      EXCEPT !.out = Put(@, "group_id", OrElse(event["group_id"], 0))]
             parsed == Strptime(event["datetime"][1])
         IN IF ~parsed.ok THEN Raise(s1, "ValueError")
            ELSE [s1 EXCEPT !.out = Put(@, "timestamp",
                                        OrElse(EnsureValidDate(parsed.value), UtcNow))]

\* event.get("data", {})
DataOf(event) == IF "data" \in DOMAIN event THEN event["data"] ELSE Some(EmptyDict)

\* not x, for an optional dict
Falsy(x) == x = None \/ DOMAIN x[1] = {}

\* if not data: logger.error(...); return None
DataCheck(s, event) ==
    IF ~Active(s) THEN s
    ELSE IF Falsy(DataOf(event)) THEN [s EXCEPT !.ret = TRUE] ELSE s

\* a mapping in iteration order is a sequence of [key, value] items with
\* distinct keys
MapKeys(m) == {m[i].key : i \in 1..Len(m)}

\* mapping.get(k, None)
MapGet(m, k) ==
    IF k \in MapKeys(m) THEN m[CHOOSE i \in 1..Len(m) : m[i].key = k].value
    ELSE None

\* extract_common(output, event, metadata)
ExtractCommon(s, event) ==
    IF ~Active(s) THEN s
    ELSE LET s1 == [Called(s, "extract_common")
                      EXCEPT !.out = Put(@, "platform", Unicodify(event["platform"]))]
             data == DataOf(event)[1]
         IN IF "received" \notin DOMAIN data THEN Raise(s1, "KeyError")
            ELSE IF data["received"] = None THEN Raise(s1, "TypeError")
            ELSE LET received == CollapseSeconds(data["received"])
                     modules == IF "modules" \in DOMAIN data THEN data["modules"]
                                ELSE Some([kind |-> "dict", items |-> <<>>])
                     items == IF modules # None /\ modules[1].kind = "dict"
                              THEN modules[1].items ELSE <<>>
                     o1 == Put(s1.out, "received", received)
                     o2 == Put(o1, "version", Unicodify(Get(data, "version")))
                     o3 == Put(o2, "location", Unicodify(Get(data, "location")))
                     o4 == Put(o3, "modules.name",
                               [i \in 1..Len(items) |-> Unicodify(Some(items[i].key))[1]])
                     o5 == Put(o4, "modules.version",
                               [i \in 1..Len(items) |->
                                   OrElse(Unicodify(items[i].value), "")])
                 IN [s1 EXCEPT !.out = o5]

\* self.extract_custom(processed, event, metadata)
ExtractCustom(s, proc, event) ==
    IF ~Active(s) THEN s
    ELSE HookWrite([Called(s, "extract_custom")
                      EXCEPT !.out = Put(@, "message", Unicodify(Get(event, "message")))],
                   proc, "extract_custom")

\* extract_sdk(output, sdk), with sdk = data.get("sdk", None) or {}
ExtractSdk(s, event) ==
    IF ~Active(s) THEN s
    ELSE LET sdk == OrElse(Get(DataOf(event)[1], "sdk"), EmptyDict)
             given == OrElse(Get(sdk, "integrations"), <<>>)
             Kept(i) == Unicodify(i) # None /\ Unicodify(i)[1] # ""
             kept == SelectSeq(given, Kept)
             o1 == Put(s.out, "sdk_name", Unicodify(Get(sdk, "name")))
             o2 == Put(o1, "sdk_version", Unicodify(Get(sdk, "version")))
             o3 == Put(o2, "sdk_integrations",
                       [i \in 1..Len(kept) |-> Unicodify(kept[i])[1]])
         IN [Called(s, "extract_sdk") EXCEPT !.out = o3]

\* _as_dict_safe(value): the mapping of a dict-shaped container without the
\* items whose value is no scalar; the empty mapping for null and for any
\* other container
AsDictSafe(value) ==
    IF value = None THEN <<>>
    ELSE IF value[1].kind = "dict"
    THEN LET Scalar(item) == item.value # None
         IN SelectSeq(value[1].items, Scalar)
    ELSE <<>>

\* tags = _as_dict_safe(data.get("tags", None))
TagsOf(event) == AsDictSafe(Get(DataOf(event)[1], "tags"))

\* self.extract_promoted_tags(processed, tags): each promoted key of the
\* dataset gets its dedicated column
ExtractPromotedTags(s, proc, tags) ==
    IF ~Active(s) THEN s
    ELSE HookWrite([Called(s, "extract_promoted_tags")
                      EXCEPT !.out = [k \in proc.promoted_tags |->
                                         Unicodify(MapGet(tags, k))] @@ @],
                   proc, "extract_promoted_tags")

\* self.extract_tags_custom(processed, event, tags, metadata)
ExtractTagsCustom(s, proc, tags) ==
    IF ~Active(s) THEN s
    ELSE HookWrite(Called(s, "extract_tags_custom"), proc, "extract_tags_custom")

\* contexts = data.get("contexts", None) or {}
ContextsOf(event) == OrElse(Get(DataOf(event)[1], "contexts"), <<>>)

\* self.extract_promoted_contexts(processed, contexts, tags)
ExtractPromotedContexts(s, proc, contexts, tags) ==
    IF ~Active(s) THEN s
    ELSE HookWrite(Called(s, "extract_promoted_contexts"), proc,
                   "extract_promoted_contexts")

\* extract_extra_tags / extract_extra_contexts: the keys and the values of
\* the mapping it is handed, as two parallel lists in iteration order
ExtractNested(m) ==
    [keys |-> [i \in 1..Len(m) |-> m[i].key],
     values |-> [i \in 1..Len(m) |-> m[i].value[1]]]

\* processed["contexts.key"], processed["contexts.value"] = extract_extra_contexts(contexts)
ExtraContextsStep(s, contexts) ==
    IF ~Active(s) THEN s
    ELSE LET kv == ExtractNested(contexts)
         IN [Called(s, "extract_extra_contexts")
               EXCEPT !.out = Put(Put(@, "contexts.key", kv.keys),
                                  "contexts.value", kv.values)]

\* processed["tags.key"], processed["tags.value"] = extract_extra_tags(tags)
ExtraTagsStep(s, tags) ==
    IF ~Active(s) THEN s
    ELSE LET kv == ExtractNested(tags)
         IN [Called(s, "extract_extra_tags")
               EXCEPT !.out = Put(Put(@, "tags.key", kv.keys),
                                  "tags.value", kv.values)]

LegacyException == "sentry.interfaces.Exception"

\* (data.get("exception", data.get("sentry.interfaces.Exception", None)) or {})
\*     .get("values", None) or []
StacksOf(event) ==
    LET data == DataOf(event)[1]
        exception == IF "exception" \in DOMAIN data THEN data["exception"]
                     ELSE Get(data, LegacyException)
    IN OrElse(Get(OrElse(exception, EmptyDict), "values"), <<>>)

\* self.extract_stacktraces(processed, stacks)
StacktracesStep(s, stks) ==
    IF ~Active(s) THEN s
    ELSE [Called(s, "extract_stacktraces")
            EXCEPT !.out = ExtractStacktraces(@, stks)]

\* the stamping done with setdefault: a column already written is kept
StampMetadataIfAbsent(s, meta) ==
    IF ~Active(s) THEN s
    ELSE [s EXCEPT !.out = @ @@ [offset |-> meta.offset, partition |-> meta.partition,
                                 message_timestamp |-> meta.timestamp]]

\* processed["offset"], ["partition"], ["message_timestamp"] = metadata...
StampMetadata(s, meta) ==
    IF ~Active(s) THEN s
    ELSE [s EXCEPT !.out = Put(Put(Put(@, "offset", meta.offset),
                                   "partition", meta.partition),
                               "message_timestamp", meta.timestamp)]

\* process_insert(event, metadata) of the subclass proc: the final state, whose
\* out is the returned row when it neither raised nor returned None
ProcessInsert(event, meta, proc) ==
    LET s1 == ShouldProcess(StartInsert, proc, event)
        s2 == ExtractEventId(ExtractProjectId(InitProcessed(s1), event), proc, event)
        s3 == ExtractRequired(RetentionStep(s2, event), event)
        s4 == DataCheck(s3, event)
        s5 == ExtractSdk(ExtractCustom(ExtractCommon(s4, event), proc, event), event)
    IN IF ~Active(s5) THEN s5
       ELSE LET tags == TagsOf(event)
                s6 == ExtractTagsCustom(ExtractPromotedTags(s5, proc, tags), proc, tags)
                contexts == ContextsOf(event)
                s7 == ExtractPromotedContexts(s6, proc, contexts, tags)
                s8 == ExtraTagsStep(ExtraContextsStep(s7, contexts), tags)
                s9 == StacktracesStep(s8, StacksOf(event))
            IN StampMetadata(s9, meta)

\* what process_message gives back: kind is "raise" (with error), "none",
\* "insert" (InsertBatch(rows, None)) or "replacement"
\* (ReplacementBatch(key, messages))
Raised(e) == [kind |-> "raise", error |-> e, rows |-> <<>>, key |-> "", messages |-> <<>>]

ReturnedNone == [kind |-> "none", error |-> "", rows |-> <<>>, key |-> "", messages |-> <<>>]

InsertBatch(rows) ==
    [kind |-> "insert", error |-> "", rows |-> rows, key |-> "", messages |-> <<>>]

ReplacementBatch(key, messages) ==
    [kind |-> "replacement", error |-> "", rows |-> <<>>, key |-> key,
     messages |-> messages]

\* process_message with the kind looked at before the version
ProcessMessageKindFirst(msg, meta, proc) ==
    IF msg.type \in REPLACEMENT_EVENT_TYPES
    THEN [result |-> ReplacementBatch(ToString(msg.event["project_id"][1]), <<msg>>),
          calls |-> <<>>]
    ELSE IF msg.version # SupportedVersion
    THEN [result |-> Raised("InvalidMessageVersion"), calls |-> <<>>]
    ELSE IF msg.type = "insert"
    THEN LET s == ProcessInsert(msg.event, meta, proc)
         IN [result |-> IF s.exc = "EventTooOld" THEN ReturnedNone
                        ELSE IF s.exc # "" THEN Raised(s.exc)
                        ELSE IF s.ret THEN ReturnedNone
                        ELSE InsertBatch(<<s.out>>),
             calls |-> s.calls]
    ELSE [result |-> Raised("InvalidMessageType"), calls |-> <<>>]

\* process_message with an unknown kind dropped instead of refused
ProcessMessageDropUnknown(msg, meta, proc) ==
    IF msg.version # SupportedVersion
    THEN [result |-> Raised("InvalidMessageVersion"), calls |-> <<>>]
    ELSE IF msg.type = "insert"
    THEN LET s == ProcessInsert(msg.event, meta, proc)
         IN [result |-> IF s.exc = "EventTooOld" THEN ReturnedNone
                        ELSE IF s.exc # "" THEN Raised(s.exc)
                        ELSE IF s.ret THEN ReturnedNone
                        ELSE InsertBatch(<<s.out>>),
             calls |-> s.calls]
    ELSE IF msg.type \in REPLACEMENT_EVENT_TYPES
    THEN [result |-> ReplacementBatch(ToString(msg.event["project_id"][1]), <<msg>>),
          calls |-> <<>>]
    ELSE [result |-> ReturnedNone, calls |-> <<>>]

\* process_message without the except EventTooOld clause
ProcessMessageTooOldRaises(msg, meta, proc) ==
    IF msg.version # SupportedVersion
    THEN [result |-> Raised("InvalidMessageVersion"), calls |-> <<>>]
    ELSE IF msg.type = "insert"
    THEN LET s == ProcessInsert(msg.event, meta, proc)
         IN [result |-> IF s.exc # "" THEN Raised(s.exc)
                        ELSE IF s.ret THEN ReturnedNone
                        ELSE InsertBatch(<<s.out>>),
             calls |-> s.calls]
    ELSE IF msg.type \in REPLACEMENT_EVENT_TYPES
    THEN [result |-> ReplacementBatch(ToString(msg.event["project_id"][1]), <<msg>>),
          calls |-> <<>>]
    ELSE [result |-> Raised("InvalidMessageType"), calls |-> <<>>]

\* process_message(message, metadata) of the subclass proc: the result and the
\* steps and hooks invoked
ProcessMessageResult(msg, meta, proc) ==
    IF msg.version # SupportedVersion
    THEN [result |-> Raised("InvalidMessageVersion"), calls |-> <<>>]
    ELSE IF msg.type = "insert"
    THEN LET s == ProcessInsert(msg.event, meta, proc)
         IN [result |-> IF s.exc = "EventTooOld" THEN ReturnedNone
                        ELSE IF s.exc # "" THEN Raised(s.exc)
                        ELSE IF s.ret THEN ReturnedNone
                        ELSE InsertBatch(<<s.out>>),
             calls |-> s.calls]
    ELSE IF msg.type \in REPLACEMENT_EVENT_TYPES
    THEN [result |-> ReplacementBatch(ToString(msg.event["project_id"][1]), <<msg>>),
          calls |-> <<>>]
    ELSE [result |-> Raised("InvalidMessageType"), calls |-> <<>>]

-----------------------------------------------------------------------------
(* The messages, metadata and subclasses the write path is run on *)

Datetimes ==
    {"2021-04-24T00:48:00.000000Z", "2020-01-01T00:00:00.000000Z",
     "1969-12-31T23:59:00.000000Z", "2200-01-01T00:00:00.000000Z",
     "2021-04-24 00:48:00", ""}

GroupIds == {None, Some(0), Some(5)}

\* an event without the data key
BaseEvent(project, group, dt) ==
    [event_id |-> Some("e1"), organization_id |-> Some(1),
     project_id |-> Some(project), group_id |-> group, message |-> Some("msg"),
     platform |-> Some("python"), datetime |-> Some(dt),
     primary_hash |-> Some(""), retention_days |-> Some(30)]

MinimalPayload == [received |-> Some(26987080)]

\* events whose payload is absent, null, empty or minimal
PlainEvents ==
    LET bases == {BaseEvent(p, g, dt) : p \in ProjectIds, g \in GroupIds, dt \in Datetimes}
    IN bases \cup {Put(e, "data", d) : e \in bases,
                                       d \in {None, Some(EmptyDict), Some(MinimalPayload)}}

TagKeys == {"environment", "custom"}

TagItems == {[key |-> k, value |-> v] : k \in TagKeys, v \in {Some("prod"), None}}

\* the tag mappings of at most MaxTags items
TagMaps ==
    {m \in SeqsUpTo(TagItems, MaxTags) :
        \A i, j \in 1..Len(m) : m[i].key = m[j].key => i = j}

TagContainers ==
    {None, Some([kind |-> "list", items |-> <<[key |-> "custom", value |-> Some("prod")]>>])}
    \cup {Some([kind |-> "dict", items |-> m]) : m \in TagMaps}

StackWithFrames ==
    Put(StackBare, "stacktrace", Some([frames |-> Some(<<None, Some(FrameA)>>)]))

ExceptionValues ==
    {None, Some(<<Some(StackBare)>>), Some(<<None, Some(StackWithFrames)>>)}

\* the payload's exception and legacy exception keys: each absent, null or an
\* interface with values
ExceptionParts ==
    LET interfaces == {None} \cup {Some([values |-> v]) : v \in ExceptionValues}
        modern == {EmptyDict} \cup {[exception |-> x] : x \in interfaces}
        legacy == {EmptyDict, LegacyException :> Some([values |-> Some(<<Some(StackWithFrames)>>)])}
    IN {m @@ l : m \in modern, l \in legacy}

\* the payload's contexts, sdk and modules keys
ExtraParts ==
    {EmptyDict,
     [contexts |-> Some(<<[key |-> "os.name", value |-> Some("linux")]>>),
      sdk |-> Some([name |-> Some("sentry.python"),
                    integrations |-> Some(<<Some("django"), None, Some("")>>)]),
      modules |-> Some([kind |-> "dict",
                        items |-> <<[key |-> "six", value |-> None]>>])],
     [contexts |-> None, sdk |-> None,
      modules |-> Some([kind |-> "list", items |-> <<>>])]}

RichPayloads ==
    {MinimalPayload @@ [tags |-> t] @@ x @@ e :
        t \in TagContainers, x \in ExtraParts, e \in ExceptionParts}
    \cup {[tags |-> None], [received |-> None], [received |-> Some(-5)]}

RichEvents ==
    {Put(BaseEvent(p, Some(5), "2021-04-24T00:48:00.000000Z"), "data", Some(d)) :
        p \in ProjectIds, d \in RichPayloads}

MessageTypes == ReplacementType \cup {"insert", "bogus", ""}

Versions == {1, 2, 3}

Metadatas ==
    {[offset |-> 100, partition |-> 1, timestamp |-> 0],
     [offset |-> 101, partition |-> 2, timestamp |-> 26988333]}

WritingHooks == {"_extract_event_id", "extract_custom", "extract_promoted_tags",
                 "extract_tags_custom", "extract_promoted_contexts"}

ClobberColumns == {"deleted", "offset", "partition", "message_timestamp"}

Clobbers == {None} \cup {Some([hook |-> h, column |-> c]) :
                            h \in WritingHooks, c \in ClobberColumns}

PromotedTagSets == {{}, {"environment"}}

Processors ==
    [should_process : BOOLEAN, promoted_tags : PromotedTagSets, clobber : Clobbers]

Scenarios ==
    {[message |-> [version |-> 2, type |-> "insert", event |-> e],
      meta |-> m, proc |-> p] :
        e \in PlainEvents, m \in Metadatas,
        p \in {q \in Processors : q.promoted_tags = {}}}
    \cup {[message |-> [version |-> 2, type |-> "insert", event |-> e],
           meta |-> CHOOSE m \in Metadatas : m.offset = 100,
           proc |-> [should_process |-> TRUE, promoted_tags |-> pt, clobber |-> None]] :
             e \in RichEvents, pt \in PromotedTagSets}
    \cup {[message |-> [version |-> v, type |-> t,
                        event |-> Put(BaseEvent(p, Some(5), "2021-04-24T00:48:00.000000Z"),
                                      "data", d)],
           meta |-> CHOOSE m \in Metadatas : m.offset = 100,
           proc |-> [should_process |-> TRUE, promoted_tags |-> {}, clobber |-> None]] :
             v \in Versions, t \in MessageTypes, p \in ProjectIds,
             d \in {Some(EmptyDict), Some(MinimalPayload)}}

Pending == [kind |-> "pending", error |-> "", rows |-> <<>>, key |-> "", messages |-> <<>>]

PipelineInit ==
    /\ \E sc \in Scenarios :
          /\ message = sc.message
          /\ metadata = sc.meta
          /\ processor = sc.proc
    /\ result = Pending
    /\ calls = <<>>
    /\ pc = "ready"

PipelineIdle ==
    /\ message = [version |-> 2, type |-> "insert",
                  event |-> BaseEvent(7, None, "")]
    /\ metadata = CHOOSE m \in Metadatas : m.offset = 100
    /\ processor = [should_process |-> FALSE, promoted_tags |-> {}, clobber |-> None]
    /\ result = Pending
    /\ calls = <<>>
    /\ pc = "idle"

StackIdle ==
    /\ stacks = <<>>
    /\ output = [project_id |-> 7]
    /\ spc = "idle"

\* one call of process_message
ProcessMessage ==
    /\ pc = "ready"
    /\ LET r == ProcessMessageResult(message, metadata, processor)
       IN /\ result' = r.result
          /\ calls' = r.calls
    /\ pc' = "done"
    /\ UNCHANGED <<message, metadata, processor>>

-----------------------------------------------------------------------------
(* Read path: SingleTagProcessor.process_query *)

\* the expression nodes of snuba.query.expressions
Column(alias, column_name, table_name) ==
    [kind |-> "Column", alias |-> alias, column_name |-> column_name,
     table_name |-> table_name]

Literal(alias, value) == [kind |-> "Literal", alias |-> alias, value |-> value]

FunctionCall(alias, function_name, parameters) ==
    [kind |-> "FunctionCall", alias |-> alias, function_name |-> function_name,
     parameters |-> parameters]

NestedColumn(alias, column_name, key) ==
    [kind |-> "NestedColumn", alias |-> alias, column_name |-> column_name,
     key |-> key]

\* snuba.query.dsl.array_element
array_element(alias, array, index) ==
    FunctionCall(alias, "arrayElement", <<array, index>>)

\* A column type is the sequence of its constructors from the outermost in,
\* as in Array(Nullable(UUID())).  str(col_type) is the text of that nesting,
\* kept as a sequence of tokens so that "String" is a part of "FixedString".
ClassTokens(name) ==
    IF name = "FixedString" THEN <<"Fixed", "String">> ELSE <<name>>

RECURSIVE TypeStr(_)
TypeStr(type) ==
    IF type = <<>> THEN <<>>
    ELSE ClassTokens(Head(type)) \o <<"(">> \o TypeStr(Tail(type)) \o <<")">>

\* sub in text, for two strings given as sequences of tokens
InStr(sub, text) ==
    \E i \in 1..(Len(text) - Len(sub) + 1) : SubSeq(text, i, i + Len(sub) - 1) = sub

\* process_column(exp): the node returned, or the exception raised
Returned(node) == [exc |-> "", node |-> node]

\* process_column with the array looked up under the resolved physical name
\* instead of the logical key
ProcessColumnResolvedKey(e, cfg) ==
    IF e.kind # "NestedColumn" \/ e.column_name \notin cfg.nested_column_names
    THEN Returned(e)
    ELSE LET alias == e.alias
             key_name == e.key
             col_name == e.column_name
             Lookup(k) == Returned(array_element(
                              alias,
                              Column(None, col_name \o ".value", None),
                              FunctionCall(None, "indexOf",
                                           <<Column(None, col_name \o ".key", None),
                                             Literal(None, k)>>)))
         IN IF col_name \notin DOMAIN cfg.promoted_columns THEN Lookup(key_name)
            ELSE IF col_name \notin DOMAIN cfg.key_column_map
            THEN [exc |-> "KeyError", node |-> e]
            ELSE LET promoted_column_name ==
                         IF key_name \in DOMAIN cfg.key_column_map[col_name]
                         THEN cfg.key_column_map[col_name][key_name]
                         ELSE key_name
                 IN IF promoted_column_name \notin cfg.promoted_columns[col_name]
                    THEN Lookup(promoted_column_name)
                    ELSE LET col_type == IF promoted_column_name \in DOMAIN cfg.columns
                                         THEN Some(TypeStr(cfg.columns[promoted_column_name]))
                                         ELSE None
                         IN IF /\ col_type # None
                               /\ InStr(<<"String">>, col_type[1])
                               /\ ~InStr(<<"Fixed", "String">>, col_type[1])
                            THEN Returned(Column(alias, promoted_column_name, None))
                            ELSE Returned(FunctionCall(
                                     alias, "toString",
                                     <<Column(None, promoted_column_name, None)>>))

\* process_column without the test of the family against the configured names
ProcessColumnAnyFamily(e, cfg) ==
    IF e.kind # "NestedColumn"
    THEN Returned(e)
    ELSE LET alias == e.alias
             key_name == e.key
             col_name == e.column_name
             lookup == Returned(array_element(
                           alias,
                           Column(None, col_name \o ".value", None),
                           FunctionCall(None, "indexOf",
                                        <<Column(None, col_name \o ".key", None),
                                          Literal(None, key_name)>>)))
         IN IF col_name \notin DOMAIN cfg.promoted_columns THEN lookup
            ELSE IF col_name \notin DOMAIN cfg.key_column_map
            THEN [exc |-> "KeyError", node |-> e]
            ELSE LET promoted_column_name ==
                         IF key_name \in DOMAIN cfg.key_column_map[col_name]
                         THEN cfg.key_column_map[col_name][key_name]
                         ELSE key_name
                 IN IF promoted_column_name \notin cfg.promoted_columns[col_name]
                    THEN lookup
                    ELSE LET col_type == IF promoted_column_name \in DOMAIN cfg.columns
                                         THEN Some(TypeStr(cfg.columns[promoted_column_name]))
                                         ELSE None
                         IN IF /\ col_type # None
                               /\ InStr(<<"String">>, col_type[1])
                               /\ ~InStr(<<"Fixed", "String">>, col_type[1])
                            THEN Returned(Column(alias, promoted_column_name, None))
                            ELSE Returned(FunctionCall(
                                     alias, "toString",
                                     <<Column(None, promoted_column_name, None)>>))

\* process_column(exp) of the processor constructed with cfg
ProcessColumn(e, cfg) ==
    IF e.kind # "NestedColumn" \/ e.column_name \notin cfg.nested_column_names
    THEN Returned(e)
    ELSE LET alias == e.alias
             key_name == e.key
             col_name == e.column_name
             lookup == Returned(array_element(
                           alias,
                           Column(None, col_name \o ".value", None),
                           FunctionCall(None, "indexOf",
                                        <<Column(None, col_name \o ".key", None),
                                          Literal(None, key_name)>>)))
         IN IF col_name \notin DOMAIN cfg.promoted_columns THEN lookup
            ELSE IF col_name \notin DOMAIN cfg.key_column_map
            THEN [exc |-> "KeyError", node |-> e]
            ELSE LET promoted_column_name ==
                         IF key_name \in DOMAIN cfg.key_column_map[col_name]
                         THEN cfg.key_column_map[col_name][key_name]
                         ELSE key_name
                 IN IF promoted_column_name \notin cfg.promoted_columns[col_name]
                    THEN lookup
                    ELSE LET col_type == IF promoted_column_name \in DOMAIN cfg.columns
                                         THEN Some(TypeStr(cfg.columns[promoted_column_name]))
                                         ELSE None
                         IN IF /\ col_type # None
                               /\ InStr(<<"String">>, col_type[1])
                               /\ ~InStr(<<"Fixed", "String">>, col_type[1])
                            THEN Returned(Column(alias, promoted_column_name, None))
                            ELSE Returned(FunctionCall(
                                     alias, "toString",
                                     <<Column(None, promoted_column_name, None)>>))

\* query.transform_expressions(process_column): the parameters of a function
\* call are transformed first, then the node itself
RECURSIVE Transform(_, _)
Transform(e, cfg) ==
    IF e.kind = "FunctionCall"
    THEN LET ps == [i \in 1..Len(e.parameters) |-> Transform(e.parameters[i], cfg)]
         IN IF \E i \in 1..Len(ps) : ps[i].exc # ""
            THEN [exc |-> "KeyError", node |-> e]
            ELSE ProcessColumn([e EXCEPT !.parameters =
                                   [i \in 1..Len(ps) |-> ps[i].node]], cfg)
    ELSE ProcessColumn(e, cfg)

\* the value of an expression on a stored row: arrayElement is 1-based and
\* gives the array's default (the empty string) for index 0; indexOf gives
\* the first position of the value, 0 when it is not in the array
RECURSIVE Eval(_, _)
Eval(e, r) ==
    CASE e.kind = "Column" -> r[e.column_name]
      [] e.kind = "Literal" -> e.value
      [] e.kind = "FunctionCall" /\ e.function_name = "indexOf" ->
            LET arr == Eval(e.parameters[1], r)
                x == Eval(e.parameters[2], r)
                hits == {i \in 1..Len(arr) : arr[i] = x}
            IN IF hits = {} THEN 0 ELSE CHOOSE i \in hits : \A j \in hits : i <= j
      [] e.kind = "FunctionCall" /\ e.function_name = "arrayElement" ->
            LET arr == Eval(e.parameters[1], r)
                n == Eval(e.parameters[2], r)
            IN IF n \in 1..Len(arr) THEN arr[n] ELSE ""

\* the expressions, configurations and rows the read path is run on
Families == {"tags", "contexts", "other"}

Keys == {"environment", "sentry:release", "custom"}

Aliases == {None, Some("a1")}

Subscripts == {NestedColumn(a, f, k) : a \in Aliases, f \in Families, k \in Keys}

Expressions ==
    Subscripts
    \cup {Column(Some("t"), "timestamp", None), Column(None, "tags.key", None),
          Literal(None, "environment")}
    \cup {FunctionCall(Some("f"), "count", <<>>)}
    \cup {FunctionCall(None, "equals", <<s, Literal(None, "prod")>>) :
            s \in {x \in Subscripts : x.alias = None}}

ColumnTypes ==
    {<<"String">>, <<"FixedString">>, <<"UInt">>, <<"DateTime">>,
     <<"Nullable", "String">>, <<"Nullable", "UInt">>, <<"Array", "String">>,
     <<"LowCardinality", "String">>}

PromotedNames == {"environment", "release"}

\* the ColumnSet: every promoted column with the type given, or no promoted
\* column at all
ColumnSets ==
    {[timestamp |-> <<"DateTime">>]}
    \cup {[timestamp |-> <<"DateTime">>, environment |-> ty, release |-> ty,
           custom |-> ty] : ty \in ColumnTypes}

PromotedColumnMaps ==
    {[other |-> {"custom"}],
     [other |-> {"custom"}, tags |-> {}],
     [other |-> {"custom"}, tags |-> PromotedNames],
     [other |-> {"custom"}, tags |-> PromotedNames, contexts |-> {"custom"}]}

KeyColumnMaps ==
    {EmptyDict,
     [tags |-> EmptyDict],
     [tags |-> ("sentry:release" :> "release")],
     [tags |-> ("sentry:release" :> "release"), contexts |-> EmptyDict,
      other |-> EmptyDict]}

Configs ==
    [nested_column_names : {{"tags"}, {"tags", "contexts"}},
     columns : ColumnSets,
     promoted_columns : PromotedColumnMaps,
     key_column_map : KeyColumnMaps]

\* stored rows: the key and value arrays of each family
Rows ==
    {("tags.key" :> tk) @@ ("tags.value" :> tv)
       @@ ("contexts.key" :> ck) @@ ("contexts.value" :> cv) :
        <<tk, tv>> \in {<<<<>>, <<>>>>,
                        <<<<"custom">>, <<"v1">>>>,
                        <<<<"level", "environment", "custom">>, <<"info", "prod", "v2">>>>},
        <<ck, cv>> \in {<<<<"custom">>, <<"c1">>>>}}

RewriterInit ==
    /\ exp \in Expressions
    /\ config \in Configs
    /\ row \in Rows
    /\ rewritten = Returned(Literal(None, ""))
    /\ qpc = "ready"

\* one call of process_query on a query made of the expression exp
ProcessQuery ==
    /\ qpc = "ready"
    /\ rewritten' = Transform(exp, config)
    /\ qpc' = "done"
    /\ UNCHANGED <<exp, config, row>>

-----------------------------------------------------------------------------
(* Specifications *)

RewriterIdle ==
    /\ exp = Literal(None, "")
    /\ config = CHOOSE c \in Configs : TRUE
    /\ row = CHOOSE r \in Rows : TRUE
    /\ rewritten = Returned(Literal(None, ""))
    /\ qpc = "idle"

\* the write path: one message per behaviour
Init == PipelineInit /\ StackIdle /\ RewriterIdle

Next == ProcessMessage /\ UNCHANGED <<stackVars, rewriterVars>>

Spec == Init /\ [][Next]_vars

\* extract_stacktraces on its own
StackSpecInit == PipelineIdle /\ StackInit /\ RewriterIdle

StackSpecNext == CallExtractStacktraces /\ UNCHANGED <<pipelineVars, rewriterVars>>

StackSpec == StackSpecInit /\ [][StackSpecNext]_vars

\* process_query on its own
RewriterSpecInit == PipelineIdle /\ StackIdle /\ RewriterInit

RewriterSpecNext == ProcessQuery /\ UNCHANGED <<pipelineVars, stackVars>>

RewriterSpec == RewriterSpecInit /\ [][RewriterSpecNext]_vars

-----------------------------------------------------------------------------
(* Properties of the write path, under Spec *)

Done == pc = "done"

IsInsert == message.version = 2 /\ message.type = "insert"

\* the row of the insert batch process_message returned
ReturnedRow == result.rows[1]

\* C1: every version-2 message of one of the thirteen mutation kinds
\* (start/end delete-groups, merge, unmerge, unmerge-hierarchical, delete-tag;
\* tombstone-events, replace-group, exclude-groups) comes back as a
\* replacement batch keyed by str(project_id) holding exactly the original
\* message, and no extraction step or hook is invoked.
C1_MutationKindsForwarded ==
    (Done /\ message.version = 2 /\ message.type \in ReplacementType)
        => /\ result = ReplacementBatch(ToString(message.event["project_id"][1]),
                                        <<message>>)
           /\ calls = <<>>

\* C2: an insert message (version 2) whose event has an empty or absent data
\* payload returns nothing and raises no error, whatever the timestamp
\* string, group id, project id and retention of the event.
C2_EmptyPayloadDropped ==
    (Done /\ IsInsert /\ Falsy(DataOf(message.event))) => result = ReturnedNone

\* the tag mapping of the event as the producer sent it: the items of a
\* dict-shaped tags value that have a scalar value
SourceTags ==
    LET value == Get(DataOf(message.event)[1], "tags")
    IN IF value # None /\ value[1].kind = "dict"
       THEN {value[1].items[i] : i \in {j \in 1..Len(value[1].items) :
                                           value[1].items[j].value # None}}
       ELSE {}

InPromotedColumn(item) ==
    /\ item.key \in processor.promoted_tags
    /\ item.key \in DOMAIN ReturnedRow
    /\ ReturnedRow[item.key] = item.value

InTagArrays(item) ==
    \E i \in 1..Len(ReturnedRow["tags.key"]) :
        /\ ReturnedRow["tags.key"][i] = item.key
        /\ ReturnedRow["tags.value"][i] = item.value[1]

C7_ProvenanceAndDeletedWhateverHooks ==
    (Done /\ result.kind = "insert")
        => /\ ReturnedRow["deleted"] = 0
           /\ ReturnedRow["offset"] = metadata.offset
           /\ ReturnedRow["partition"] = metadata.partition
           /\ ReturnedRow["message_timestamp"] = metadata.timestamp

HookWroteDeleted ==
    processor.clobber # None /\ processor.clobber[1].column = "deleted"

\* C7 as amended: in every returned row offset, partition and
\* message_timestamp are those of the metadata whatever the hooks and the
\* earlier steps wrote; deleted is 0 unless a dataset hook itself wrote the
\* deleted column.
C7_ProvenanceStampedLast ==
    (Done /\ result.kind = "insert")
        => /\ ReturnedRow["offset"] = metadata.offset
           /\ ReturnedRow["partition"] = metadata.partition
           /\ ReturnedRow["message_timestamp"] = metadata.timestamp
           /\ (~HookWroteDeleted => ReturnedRow["deleted"] = 0)

\* a row was returned although a hook had written another value to offset
C7_Witness ==
    /\ Done
    /\ result.kind = "insert"
    /\ processor.clobber # None
    /\ processor.clobber[1].column = "offset"
    /\ metadata.offset = 101
    /\ ReturnedRow["offset"] = 101
    /\ ReturnedRow["deleted"] = 0

\* the timestamp string does not match the format, or parses to a date
\* outside the valid range
BadTimestamp(s) ==
    \/ ~Strptime(s).ok
    \/ EnsureValidDate(Strptime(s).value) = None

\* C8: a malformed or invalid timestamp string in an insert event never makes
\* process_message fail; a returned row has the current time as timestamp.
C8_BadTimestampNeverFails ==
    (Done /\ IsInsert /\ BadTimestamp(message.event["datetime"][1]))
        => /\ ~(result.kind = "raise" /\ result.error = "ValueError")
           /\ (result.kind = "insert" => ReturnedRow["timestamp"] = UtcNow)

\* C9: a message whose version is not 2 fails with the unsupported-version
\* error whatever its kind and payload; no batch comes back and no
\* extraction step runs.
C9_UnsupportedVersion ==
    (Done /\ message.version # 2)
        => result = Raised("InvalidMessageVersion") /\ calls = <<>>

\* version 3 is refused both for an insert and for a mutation kind
C9_Witness ==
    /\ Done
    /\ message.version = 3
    /\ message.type = "start_merge"
    /\ result.kind = "raise"
    /\ result.error = "InvalidMessageVersion"

\* C10: a version-2 message whose kind is neither insert nor a mutation kind
\* fails with the invalid-message-kind error; it is neither dropped nor
\* forwarded.  Stated for every kind outside insert and
\* REPLACEMENT_EVENT_TYPES, which covers every kind outside the thirteen of
\* ReplacementType.
C10_UnknownKindFails ==
    (Done /\ message.version = 2
          /\ message.type \notin ({"insert"} \cup REPLACEMENT_EVENT_TYPES))
        => result = Raised("InvalidMessageType") /\ calls = <<>>

C10_Witness ==
    /\ Done
    /\ message.version = 2
    /\ message.type = "bogus"
    /\ result.kind = "raise"
    /\ result.error = "InvalidMessageType"

-----------------------------------------------------------------------------
(* Properties of extract_stacktraces, under StackSpec *)

\* the frames of an entry of the stacks list: the non-null entries of its
\* stacktrace's frames, none for a null stack or a stack without stacktrace
FrameCount(entry) ==
    IF entry = None THEN 0
    ELSE IF "stacktrace" \notin DOMAIN entry[1] \/ entry[1]["stacktrace"] = None THEN 0
    ELSE LET frames == entry[1]["stacktrace"][1]["frames"][1]
         IN Cardinality({j \in 1..Len(frames) : frames[j] # None})

RECURSIVE TotalFrames(_, _)
TotalFrames(stks, i) ==
    IF i > Len(stks) THEN 0 ELSE FrameCount(stks[i]) + TotalFrames(stks, i + 1)

\* C4: for a project not on the denylist, exception_frames.stack_level has as
\* many entries as there are frames in all the stacks of the list, and each
\* entry lies in [0, len(stacks) - 1]; also with null stacks, null frames and
\* stacks without a stacktrace in the list.
C4_StackLevelLengthAndRange ==
    (spc = "done" /\ output["project_id"] \notin PROJECT_STACKTRACE_BLACKLIST)
        => LET levels == output["exception_frames.stack_level"]
           IN /\ Len(levels) = TotalFrames(stacks, 1)
              /\ \A i \in 1..Len(levels) : levels[i] \in 0..(Len(stacks) - 1)

\* a null stack, then a stack with a null frame and a frame
C4_Witness ==
    /\ spc = "done"
    /\ output["project_id"] = 7
    /\ Len(stacks) = 2
    /\ stacks[1] = None
    /\ stacks[2] = Some(Put(Put(StackBare, "mechanism",
                                Some([type |-> Some("generic"), handled |-> Some(FALSE)])),
                            "stacktrace", Some([frames |-> Some(<<None, Some(FrameA)>>)])))
    /\ Len(output["exception_frames.stack_level"]) = 1

-----------------------------------------------------------------------------
(* Properties of the rewrite, under RewriterSpec *)

\* exp is a subscript access on a configured family
ConfiguredSubscript ==
    exp.kind = "NestedColumn" /\ exp.column_name \in config.nested_column_names

\* the physical name the key of exp resolves to (the key itself if unaliased)
ResolvedName ==
    LET aliases == config.key_column_map[exp.column_name]
    IN IF exp.key \in DOMAIN aliases THEN aliases[exp.key] ELSE exp.key

\* the family of exp has a promoted set and the resolved name is in it
ResolvesToPromoted ==
    /\ exp.column_name \in DOMAIN config.promoted_columns
    /\ exp.column_name \in DOMAIN config.key_column_map
    /\ ResolvedName \in config.promoted_columns[exp.column_name]

\* the family of exp has no promoted set, or the resolved name is not in it
ResolvesToArrays ==
    \/ exp.column_name \notin DOMAIN config.promoted_columns
    \/ /\ exp.column_name \in DOMAIN config.key_column_map
       /\ ResolvedName \notin config.promoted_columns[exp.column_name]

\* C5: a promoted-column rewrite has string output type whatever the declared
\* type: a column declared plain String is referenced bare, a column of any
\* other declared type (numeric, FixedString, nullable, array, low-cardinality
\* wrapper) or absent from the column-type lookup is wrapped in toString.
C5_PromotedRewriteIsString ==
    (qpc = "done" /\ ConfiguredSubscript /\ ResolvesToPromoted)
        => IF /\ ResolvedName \in DOMAIN config.columns
              /\ config.columns[ResolvedName] = <<"String">>
           THEN rewritten = Returned(Column(exp.alias, ResolvedName, None))
           ELSE rewritten = Returned(FunctionCall(exp.alias, "toString",
                                        <<Column(None, ResolvedName, None)>>))

\* the value the row stores for key k of family f: the value at the position
\* of k in f.key, the array's default when k is not in f.key
StoredValue(r, f, k) ==
    LET ks == r[f \o ".key"]
    IN IF \E i \in 1..Len(ks) : ks[i] = k
       THEN r[f \o ".value"][CHOOSE i \in 1..Len(ks) : ks[i] = k]
       ELSE ""

-----------------------------------------------------------------------------
(* Further properties of the write path, under Spec *)

\* the retention check of the insert signals that the event is too old: the
\* predicate let the event through, its timestamp parsed, and
\* enforce_retention raised EventTooOld
RetentionSignalsTooOld ==
    /\ processor.should_process
    /\ Strptime(message.event["datetime"][1]).ok
    /\ EnforceRetention(message.event,
                        Strptime(message.event["datetime"][1]).value).too_old

\* C11: an insert message for which the should-process predicate is false, or
\* for which the retention check signals that the event is too old, returns
\* nothing and raises no error; when the predicate is false no other
\* extraction step, collaborator or hook is invoked.
C11_VetoAndTooOldDropped ==
    (Done /\ IsInsert)
        => /\ ~processor.should_process
                => result = ReturnedNone /\ calls = <<"_should_process">>
           /\ RetentionSignalsTooOld
                => /\ result = ReturnedNone
                   /\ calls = <<"_should_process", "extract_project_id",
                                "_extract_event_id", "enforce_retention">>

\* an event from 2020 with a payload is dropped by the retention check
C11_Witness ==
    /\ Done
    /\ IsInsert
    /\ RetentionSignalsTooOld
    /\ message.event["datetime"] = Some("2020-01-01T00:00:00.000000Z")
    /\ ~Falsy(DataOf(message.event))
    /\ result.kind = "none"

\* the stacks an exception interface holds: none when the interface is absent
\* or null, or its values are
StacksHeld(interface) ==
    IF interface = None THEN <<>>
    ELSE OrElse(Get(interface[1], "values"), <<>>)

\* process_insert got as far as extracting the stack traces
ReachedStacktraces == \E i \in 1..Len(calls) : calls[i] = "extract_stacktraces"

\* the stack and frame arrays of the returned row are those stks flatten to
RowFlattens(stks) ==
    /\ result.kind = "insert"
    /\ \A c \in StackArrays \cup FrameArrays :
          ReturnedRow[c] = ExtractStacktraces(ReturnedRow, stks)[c]

\* C14: stack traces come from whichever of data.exception and the legacy
\* data["sentry.interfaces.Exception"] is present: with data.exception absent
\* or null and stacks in the legacy field, the legacy stacks are flattened
\* into the row; with stacks in neither, every stack and frame array is empty
\* and nothing is raised.
C14_LegacyExceptionFallback ==
    (Done /\ IsInsert /\ ReachedStacktraces)
        => LET data == DataOf(message.event)[1]
               modern == Get(data, "exception")
               legacy == Get(data, LegacyException)
           IN /\ (modern = None /\ StacksHeld(legacy) # <<>>)
                    => RowFlattens(StacksHeld(legacy))
              /\ (StacksHeld(modern) = <<>> /\ StacksHeld(legacy) = <<>>)
                    => RowFlattens(<<>>)

-----------------------------------------------------------------------------
(* Further properties of the rewrite, under RewriterSpec *)

\* node n is a subscript access on a configured family
IsConfiguredSubscript(n) ==
    n.kind = "NestedColumn" /\ n.column_name \in config.nested_column_names

\* C12: a node that is not a subscript access into a configured family comes
\* back unchanged: a column, a literal, a subscript access on a family that is
\* not configured (also when that family has promoted columns and an alias
\* map) is returned as it is; a function call keeps its kind, name and alias,
\* and each of its arguments that is no such subscript access is unchanged.
C12_OtherNodesUnchanged ==
    (qpc = "done" /\ ~ConfiguredSubscript)
        => IF exp.kind = "FunctionCall"
           THEN rewritten.exc = ""
                    => /\ rewritten.node.kind = "FunctionCall"
                       /\ rewritten.node.function_name = exp.function_name
                       /\ rewritten.node.alias = exp.alias
                       /\ Len(rewritten.node.parameters) = Len(exp.parameters)
                       /\ \A i \in 1..Len(exp.parameters) :
                             ~IsConfiguredSubscript(exp.parameters[i])
                                 => rewritten.node.parameters[i] = exp.parameters[i]
           ELSE rewritten = Returned(exp)

\* a subscript access on the family other, which has a promoted column and
\* an alias map but is not configured, is left as it is
C12_Witness ==
    /\ qpc = "done"
    /\ exp = NestedColumn(Some("a1"), "other", "custom")
    /\ "other" \notin config.nested_column_names
    /\ "other" \in DOMAIN config.promoted_columns
    /\ "other" \in DOMAIN config.key_column_map
    /\ rewritten = Returned(exp)

-----------------------------------------------------------------------------
(* Further properties of extract_stacktraces, under StackSpec *)

\* n copies of v
Repeat(v, n) == [j \in 1..n |-> v]

\* the non-null stacks among the first i entries of the list
NonNullBefore(stks, i) == Cardinality({j \in 1..(i - 1) : stks[j] # None})

\* the stack levels of the frames of the list in the order they are written,
\* each frame with the zero-based index of its stack in the list
RECURSIVE LevelsByListIndex(_, _)
LevelsByListIndex(stks, i) ==
    IF i > Len(stks) THEN <<>>
    ELSE Repeat(i - 1, FrameCount(stks[i])) \o LevelsByListIndex(stks, i + 1)

\* the same, each frame with the zero-based index of its stack among the
\* non-null stacks of the list
RECURSIVE LevelsByStackIndex(_, _)
LevelsByStackIndex(stks, i) ==
    IF i > Len(stks) THEN <<>>
    ELSE Repeat(NonNullBefore(stks, i), FrameCount(stks[i]))
             \o LevelsByStackIndex(stks, i + 1)

NotDenied == output["project_id"] \notin PROJECT_STACKTRACE_BLACKLIST

\* C13 as stated: the stack_level of every frame written is the zero-based
\* index of its enclosing stack in the event's list of stacks, also when null
\* stacks or stacks with no frames precede that stack.
C13_LevelIsListIndex ==
    (spc = "done" /\ NotDenied)
        => output["exception_frames.stack_level"] = LevelsByListIndex(stacks, 1)

\* C13 as amended: the stack_level of every frame written is the zero-based
\* index of its enclosing stack among the non-null stacks of the list, which
\* is its position in the exception_stacks arrays; a null stack before it is
\* not counted, a stack with no frames is.
C13_LevelIsStackArrayIndex ==
    (spc = "done" /\ NotDenied)
        => LET levels == output["exception_frames.stack_level"]
           IN /\ levels = LevelsByStackIndex(stacks, 1)
              /\ \A i \in 1..Len(levels) :
                    levels[i] + 1 \in 1..Len(output["exception_stacks.type"])

\* a frame of the second entry of the list, after a null stack, has level 0;
\* after a stack with no frames it has level 1
C13_Witness ==
    /\ spc = "done"
    /\ NotDenied
    /\ Len(stacks) = 2
    /\ stacks[1] = None
    /\ FrameCount(stacks[2]) = 1
    /\ output["exception_frames.stack_level"] = <<0>>

\* the node is a reference to a promoted column, bare or wrapped in toString
IsPromotedExpression(n) ==
    \/ n.kind = "Column"
    \/ n.kind = "FunctionCall" /\ n.function_name = "toString"

\* the node is a lookup of a key in the arrays of a family
IsArrayLookup(n) == n.kind = "FunctionCall" /\ n.function_name = "arrayElement"

\* C15: for a subscript on a configured family the rewrite completes without
\* raising and yields a promoted-column expression or an array lookup,
\* whatever the configuration: family with or without a promoted set, with a
\* promoted set but no entry in the key-alias map, key aliased or not,
\* promoted column in or missing from the column-type lookup.
C15_RewriteNeverRaises ==
    (qpc = "done" /\ ConfiguredSubscript)
        => /\ rewritten.exc = ""
           /\ IsPromotedExpression(rewritten.node) \/ IsArrayLookup(rewritten.node)

====
